---- MODULE Spec2Model ----
(***************************************************************************)
(* A model of the zyphyr vector store: Vector (vector_aligned.rs, and the  *)
(* unpadded Vector of vector.rs), the distance metrics (distance.rs) and   *)
(* VectorCollection (collection.rs).                                       *)
(*                                                                         *)
(* f32 values are modelled in fixed point: the integer n stands for the    *)
(* float n / Scale.  Sums and differences are exact, products, quotients   *)
(* and square roots are rounded to the nearest representable value, as     *)
(* IEEE arithmetic rounds.  Slots and index-map entries are 0-based as in  *)
(* the code; a TLA+ sequence holds slot i at position i + 1.               *)
(***************************************************************************)
EXTENDS Integers, Sequences, FiniteSets, TLC

VARIABLES
    vectors,      \* VectorCollection.vectors: the backing sequence
    id_to_index,  \* VectorCollection.id_to_index: identifier -> slot
    dimensions,   \* VectorCollection.dimensions: Option<usize>
    simd_width,   \* the platform's SIMD width, fixed for the process
    last,         \* the call that has just returned: its name, arguments and
                  \* result; Idle once the caller has taken the result
    pre,          \* the collection state that call started from
    vec,          \* a Vector a caller owns outside the collection, or None
    readers       \* per reader: the call it has in progress through a shared
                  \* reference to the collection, or Idle

vars == <<vectors, id_to_index, dimensions, simd_width, last, pre, vec, readers>>

(***************************************************************************)
(* Bounds of the model.                                                    *)
(***************************************************************************)
Ids == {"a", "b", "c"}   \* identifiers
Dims == {1, 2}           \* dimensions of the vectors given to the collection
Vals == {0, 1}           \* their coordinates
MaxBatch == 2            \* batch_insert takes 0..MaxBatch vectors
MaxK == 4                \* search asks for 0..MaxK results
MaxChunk == 4            \* chunks takes sizes 0..MaxChunk
MaxWidth == 4            \* SIMD widths 1..MaxWidth
MetricMaxDim == 2        \* calculate takes slices of length 0..MetricMaxDim
MetricMaxVal == 1        \* with coordinates -MetricMaxVal..MetricMaxVal
VecMaxDim == 5           \* Vector::new takes 0..VecMaxDim coordinates
VecVals == {1, 2}        \* with these values
NormMaxDim == 3          \* normalize is given Vectors of 1..NormMaxDim coordinates
Readers == {"r1", "r2"}  \* the callers that share the collection read-only

Scale == 10 ^ 3          \* fixed-point unit: Scale stands for 1.0

(***************************************************************************)
(* Option and Result values.                                               *)
(***************************************************************************)
None == [some |-> FALSE]
Some(x) == [some |-> TRUE, val |-> x]

Ok(x) == [ok |-> TRUE, val |-> x]
Err(e) == [ok |-> FALSE, err |-> e]
Unit == <<>>

InvalidDimension(e, g) == [kind |-> "InvalidDimension", expected |-> e, got |-> g]
DimensionMismatch(e, a) == [kind |-> "DimensionMismatch", expected |-> e, actual |-> a]
EmptyVector == [kind |-> "EmptyVector"]
DuplicateId(id) == [kind |-> "Other", msg |-> <<"Duplicate ID: ", id>>]

(***************************************************************************)
(* f32 arithmetic in fixed point.                                          *)
(***************************************************************************)
F(n) == n * Scale

\* n / d rounded to the nearest integer, halves away from zero (d > 0)
RoundDiv(n, d) ==
    IF n >= 0 THEN (2 * n + d) \div (2 * d) ELSE -((2 * (-n) + d) \div (2 * d))

FMul(x, y) == RoundDiv(x * y, Scale)

FDiv(x, y) == IF y > 0 THEN RoundDiv(x * Scale, y) ELSE -RoundDiv(x * Scale, -y)

MaxRoot == 2 ^ 15         \* its square fits TLC's 32-bit integers

RECURSIVE ISqrtIn(_, _, _)
\* the largest r in lo..hi with r * r <= n
ISqrtIn(n, lo, hi) ==
    IF lo >= hi THEN lo
    ELSE LET mid == (lo + hi + 1) \div 2
         IN IF mid * mid <= n THEN ISqrtIn(n, mid, hi) ELSE ISqrtIn(n, lo, mid - 1)

\* sqrt of the fixed-point x (x >= 0), rounded to nearest
FSqrt(x) ==
    LET n == x * Scale
        r == ISqrtIn(n, 0, IF n < MaxRoot THEN n ELSE MaxRoot)
    IN IF n - r * r > r THEN r + 1 ELSE r

RECURSIVE SumSeq(_)
SumSeq(s) == IF s = <<>> THEN 0 ELSE Head(s) + SumSeq(Tail(s))

\* a.iter().zip(b.iter()): pairs up to the shorter length
Zip(a, b) ==
    LET n == IF Len(a) < Len(b) THEN Len(a) ELSE Len(b)
    IN [i \in 1..n |-> <<a[i], b[i]>>]

(***************************************************************************)
(* distance.rs: the metrics over slices.                                   *)
(***************************************************************************)
Metrics == {"Euclidean", "Cosine", "DotProduct"}

Dot(a, b) == SumSeq([i \in DOMAIN Zip(a, b) |-> FMul(Zip(a, b)[i][1], Zip(a, b)[i][2])])

Norm(a) == FSqrt(SumSeq([i \in DOMAIN a |-> FMul(a[i], a[i])]))

euclidean_distance(a, b) ==
    FSqrt(SumSeq([i \in DOMAIN Zip(a, b) |->
        FMul(Zip(a, b)[i][1] - Zip(a, b)[i][2], Zip(a, b)[i][1] - Zip(a, b)[i][2])]))

\* cosine_distance that takes a zero norm for no distance at all
cosine_distance_ZeroIsNear(a, b) ==
    LET dot_product == Dot(a, b)
        norm_a == Norm(a)
        norm_b == Norm(b)
    IN IF norm_a = 0 \/ norm_b = 0 THEN 0
       ELSE F(1) - FDiv(dot_product, FMul(norm_a, norm_b))

cosine_distance(a, b) ==
    LET dot_product == Dot(a, b)
        norm_a == Norm(a)
        norm_b == Norm(b)
    IN IF norm_a = 0 \/ norm_b = 0 THEN F(1)
       ELSE F(1) - FDiv(dot_product, FMul(norm_a, norm_b))

dot_product_distance(a, b) == -Dot(a, b)

\* calculate that tests for the empty slice before it compares the lengths
calculate_EmptyFirst(metric, a, b) ==
    IF a = <<>> THEN Err(EmptyVector)
    ELSE IF Len(a) # Len(b) THEN Err(DimensionMismatch(Len(a), Len(b)))
    ELSE CASE metric = "Euclidean" -> Ok(euclidean_distance(a, b))
           [] metric = "Cosine" -> Ok(cosine_distance(a, b))
           [] metric = "DotProduct" -> Ok(dot_product_distance(a, b))

calculate(metric, a, b) ==
    IF Len(a) # Len(b) THEN Err(DimensionMismatch(Len(a), Len(b)))
    ELSE IF a = <<>> THEN Err(EmptyVector)
    ELSE CASE metric = "Euclidean" -> Ok(euclidean_distance(a, b))
           [] metric = "Cosine" -> Ok(cosine_distance(a, b))
           [] metric = "DotProduct" -> Ok(dot_product_distance(a, b))

(***************************************************************************)
(* alignment.rs and vector_aligned.rs: Vector.                             *)
(***************************************************************************)
SIMD_ALIGNMENT == 16
SizeOfF32 == 4

pad_to_simd_width(dim) ==
    LET width == SIMD_ALIGNMENT \div SizeOfF32
    IN ((dim + width - 1) \div width) * width

\* pad_dimension(dim, simd_width), which Vector::new imports from alignment.rs
\* and alignment.rs does not define: dim rounded up to a multiple of
\* simd_width, as the specification and test_vector_padding_correctness state
pad_dimension(dim, width) == ((dim + width - 1) \div width) * width

\* AlignedVec::resize(n, fill): truncate to n or extend with fill
Resize(s, n, fill) == [i \in 1..n |-> IF i <= Len(s) THEN s[i] ELSE fill]

\* Vector::new that keeps the caller's buffer as it is, without the zero fill
VectorNew_NoPad(id, data, width) ==
    IF Len(data) = 0 THEN Err(InvalidDimension(1, 0))
    ELSE Ok([id |-> id, data |-> data, dim |-> Len(data),
             padded_dim |-> pad_dimension(Len(data), width),
             is_normalized |-> FALSE])

VectorNew(id, data, width) ==
    LET dim == Len(data)
        padded_dim == pad_dimension(dim, width)
    IN IF dim = 0 THEN Err(InvalidDimension(1, 0))
       ELSE Ok([id |-> id,
                data |-> Resize(data, padded_dim, 0),
                dim |-> dim,
                padded_dim |-> padded_dim,
                is_normalized |-> FALSE])

\* Vector::data(): the logical region
Data(v) == SubSeq(v.data, 1, v.dim)

\* Vector::raw_data(): the padded buffer
RawData(v) == v.data

\* Vector::normalize that rebuilds the buffer from the scaled logical region,
\* as vector.rs does, and so drops the padding
normalize_Rebuild(v) ==
    IF v.is_normalized THEN v
    ELSE LET magnitude == Norm(SubSeq(v.data, 1, v.dim))
         IN [v EXCEPT
               !.data = IF magnitude > 0
                        THEN [i \in 1..v.dim |-> FDiv(v.data[i], magnitude)]
                        ELSE SubSeq(v.data, 1, v.dim),
               !.is_normalized = TRUE]

\* Vector::normalize of vector_aligned.rs: the magnitude over data[..dim],
\* the division of the slots 0..dim when it is positive, and the flag
normalize(v) ==
    IF v.is_normalized THEN v
    ELSE LET magnitude == Norm(SubSeq(v.data, 1, v.dim))
         IN [v EXCEPT
               !.data = IF magnitude > 0
                        THEN [i \in DOMAIN v.data |->
                                IF i <= v.dim THEN FDiv(v.data[i], magnitude)
                                ELSE v.data[i]]
                        ELSE v.data,
               !.is_normalized = TRUE]

\* vector.rs: the Vector without padding.  Vector::new keeps the caller's
\* values as they are
UnpaddedNew(id, data) ==
    LET dim == Len(data)
    IN IF dim = 0 THEN Err(InvalidDimension(1, 0))
       ELSE Ok([id |-> id, data |-> data, dim |-> dim, is_normalized |-> FALSE])

\* Vector::normalize of vector.rs: the flag is set only when the norm is
\* positive and the data was scaled
normalize_unpadded(v) ==
    IF v.is_normalized THEN v
    ELSE LET norm == Norm(v.data)
         IN IF norm > 0
            THEN [v EXCEPT !.data = [i \in DOMAIN v.data |-> FDiv(v.data[i], norm)],
                           !.is_normalized = TRUE]
            ELSE v

\* Vector::data() of either Vector: the logical region
LogicalData(v) == SubSeq(v.data, 1, v.dim)

\* the distance from 1.0 within which the tests take a magnitude to be 1.0,
\* in units of the grid
Tolerance == Scale \div 200

\* mem::size_of::<Vector>() and String::capacity() of the one-byte
\* identifiers, on a 64-bit target
SizeOfVector == 96
IdCapacity == 1

\* Vector::memory_usage()
VectorMemoryUsage(v) == SizeOfVector + IdCapacity + v.padded_dim * SizeOfF32

\* DistanceMetric::compute(a, b), which search calls and distance.rs does not
\* define: as the specification states it, the dimension check and then the
\* metric over the logical regions, DotProduct being the raw dot product
compute(metric, a, b) ==
    IF a.dim # b.dim THEN Err(InvalidDimension(a.dim, b.dim))
    ELSE CASE metric = "Euclidean" -> Ok(euclidean_distance(Data(a), Data(b)))
           [] metric = "Cosine" -> Ok(cosine_distance(Data(a), Data(b)))
           [] metric = "DotProduct" -> Ok(Dot(Data(a), Data(b)))

(***************************************************************************)
(* collection.rs: VectorCollection.  The operations are written over a     *)
(* record s = [vectors, id_to_index, dimensions] and return the new record *)
(* together with the call's result.                                        *)
(***************************************************************************)
Panic == [panic |-> TRUE, ok |-> FALSE, some |-> FALSE]

New == [vectors |-> <<>>, id_to_index |-> <<>>, dimensions |-> None]

len(s) == Len(s.vectors)

is_empty(s) == s.vectors = <<>>

contains(s, id) == id \in DOMAIN s.id_to_index

\* HashMap::insert(k, x)
MapInsert(m, k, x) == [j \in DOMAIN m \cup {k} |-> IF j = k THEN x ELSE m[j]]

\* HashMap::remove(k)
MapRemove(m, k) == [j \in DOMAIN m \ {k} |-> m[j]]

\* slice::swap(i, j) on 0-based slots
Swap(seq, i, j) ==
    [n \in DOMAIN seq |-> IF n = i + 1 THEN seq[j + 1]
                          ELSE IF n = j + 1 THEN seq[i + 1] ELSE seq[n]]

get(s, id) ==
    IF id \notin DOMAIN s.id_to_index THEN None
    ELSE IF s.id_to_index[id] + 1 \in DOMAIN s.vectors
         THEN Some(s.vectors[s.id_to_index[id] + 1])
         ELSE Panic

\* insert that records the vector's dimension as the collection's before it
\* compares it with the one established
insert_RecordsDimensionFirst(s, vector) ==
    LET mismatch == s.dimensions.some /\ vector.dim # s.dimensions.val
        s1 == [s EXCEPT !.dimensions = Some(vector.dim)]
    IN IF mismatch
       THEN [state |-> s1,
             result |-> Err(InvalidDimension(s.dimensions.val, vector.dim))]
       ELSE IF vector.id \in DOMAIN s1.id_to_index
       THEN [state |-> s1, result |-> Err(DuplicateId(vector.id))]
       ELSE [state |-> [s1 EXCEPT
                          !.id_to_index = MapInsert(@, vector.id, Len(s1.vectors)),
                          !.vectors = Append(@, vector)],
             result |-> Ok(Unit)]

\* insert that takes a vector of any dimension
insert_AnyDimension(s, vector) ==
    LET s1 == IF s.dimensions.some THEN s
              ELSE [s EXCEPT !.dimensions = Some(vector.dim)]
    IN IF vector.id \in DOMAIN s1.id_to_index
       THEN [state |-> s1, result |-> Err(DuplicateId(vector.id))]
       ELSE [state |-> [s1 EXCEPT
                          !.id_to_index = MapInsert(@, vector.id, Len(s1.vectors)),
                          !.vectors = Append(@, vector)],
             result |-> Ok(Unit)]

\* insert that replaces the vector stored under the identifier, as
\* HashMap::insert replaces a value
insert_Overwrite(s, vector) ==
    IF s.dimensions.some /\ vector.dim # s.dimensions.val
    THEN [state |-> s,
          result |-> Err(InvalidDimension(s.dimensions.val, vector.dim))]
    ELSE IF vector.id \in DOMAIN s.id_to_index
    THEN [state |-> [s EXCEPT !.vectors[s.id_to_index[vector.id] + 1] = vector],
          result |-> Err(DuplicateId(vector.id))]
    ELSE [state |-> [s EXCEPT
                       !.dimensions = Some(vector.dim),
                       !.id_to_index = MapInsert(@, vector.id, Len(s.vectors)),
                       !.vectors = Append(@, vector)],
          result |-> Ok(Unit)]

\* insert that tests the identifier before the dimension
insert_IdFirst(s, vector) ==
    IF vector.id \in DOMAIN s.id_to_index
    THEN [state |-> s, result |-> Err(DuplicateId(vector.id))]
    ELSE IF s.dimensions.some /\ vector.dim # s.dimensions.val
    THEN [state |-> s,
          result |-> Err(InvalidDimension(s.dimensions.val, vector.dim))]
    ELSE [state |-> [s EXCEPT
                       !.dimensions = Some(vector.dim),
                       !.id_to_index = MapInsert(@, vector.id, Len(s.vectors)),
                       !.vectors = Append(@, vector)],
          result |-> Ok(Unit)]

insert(s, vector) ==
    LET mismatch == s.dimensions.some /\ vector.dim # s.dimensions.val
        s1 == IF s.dimensions.some THEN s
              ELSE IF ~is_empty(s) THEN [s EXCEPT !.dimensions = Some(vector.dim)]
              ELSE [s EXCEPT !.dimensions = Some(vector.dim)]
    IN IF mismatch
       THEN [state |-> s,
             result |-> Err(InvalidDimension(s.dimensions.val, vector.dim))]
       ELSE IF vector.id \in DOMAIN s1.id_to_index
       THEN [state |-> s1, result |-> Err(DuplicateId(vector.id))]
       ELSE [state |-> [s1 EXCEPT
                          !.id_to_index = MapInsert(@, vector.id, Len(s1.vectors)),
                          !.vectors = Append(@, vector)],
             result |-> Ok(Unit)]

RECURSIVE batch_insert_SkipFailed(_, _)
\* batch_insert that goes on after a failed element and reports the last error
batch_insert_SkipFailed(s, vs) ==
    IF vs = <<>> THEN [state |-> s, result |-> Ok(Unit)]
    ELSE LET r == insert(s, Head(vs))
             rest == batch_insert_SkipFailed(r.state, Tail(vs))
         IN IF r.result.ok \/ ~rest.result.ok THEN rest
            ELSE [state |-> rest.state, result |-> r.result]

RECURSIVE batch_insert(_, _)
batch_insert(s, vs) ==
    IF vs = <<>> THEN [state |-> s, result |-> Ok(Unit)]
    ELSE LET r == insert(s, Head(vs))
         IN IF r.result.ok THEN batch_insert(r.state, Tail(vs)) ELSE r

\* remove that pops the last vector before it looks the identifier up
remove_PopFirst(s, id) ==
    IF id \notin DOMAIN s.id_to_index
    THEN [state |-> [s EXCEPT !.vectors = SubSeq(@, 1, Len(@) - 1)],
          result |-> None]
    ELSE LET index == s.id_to_index[id]
             map1 == MapRemove(s.id_to_index, id)
             last_index == Len(s.vectors) - 1
             swapped == IF index < last_index
                        THEN Swap(s.vectors, index, last_index)
                        ELSE s.vectors
             map2 == IF index < last_index
                     THEN MapInsert(map1, swapped[index + 1].id, index)
                     ELSE map1
         IN [state |-> [s EXCEPT
                          !.id_to_index = map2,
                          !.vectors = SubSeq(swapped, 1, last_index)],
             result |-> Some(swapped[last_index + 1])]

\* remove that takes the vector to return off the end before the swap, and
\* so hands back the vector that is moved
remove_ReturnMoved(s, id) ==
    IF id \notin DOMAIN s.id_to_index THEN [state |-> s, result |-> None]
    ELSE LET index == s.id_to_index[id]
             map1 == MapRemove(s.id_to_index, id)
         IN IF s.vectors = <<>> THEN [state |-> s, result |-> Panic]
            ELSE LET last_index == Len(s.vectors) - 1
                     swapped == IF index < last_index
                                THEN Swap(s.vectors, index, last_index)
                                ELSE s.vectors
                     map2 == IF index < last_index
                             THEN MapInsert(map1, swapped[index + 1].id, index)
                             ELSE map1
                 IN [state |-> [s EXCEPT
                                  !.id_to_index = map2,
                                  !.vectors = SubSeq(swapped, 1, last_index)],
                     result |-> Some(s.vectors[last_index + 1])]

\* remove that forgets the dimension when it takes the last vector out
remove_ResetDimension(s, id) ==
    IF id \notin DOMAIN s.id_to_index THEN [state |-> s, result |-> None]
    ELSE LET index == s.id_to_index[id]
             map1 == MapRemove(s.id_to_index, id)
         IN IF s.vectors = <<>> THEN [state |-> s, result |-> Panic]
            ELSE LET last_index == Len(s.vectors) - 1
                     swapped == IF index < last_index
                                THEN Swap(s.vectors, index, last_index)
                                ELSE s.vectors
                     map2 == IF index < last_index
                             THEN MapInsert(map1, swapped[index + 1].id, index)
                             ELSE map1
                 IN [state |-> [s EXCEPT
                                  !.id_to_index = map2,
                                  !.vectors = SubSeq(swapped, 1, last_index),
                                  !.dimensions = IF last_index = 0 THEN None ELSE @],
                     result |-> Some(swapped[last_index + 1])]

\* remove that shifts the later vectors down, as Vec::remove does, and only
\* drops the identifier from the index map
remove_Shift(s, id) ==
    IF id \notin DOMAIN s.id_to_index THEN [state |-> s, result |-> None]
    ELSE LET index == s.id_to_index[id]
         IN [state |-> [s EXCEPT
                          !.id_to_index = MapRemove(@, id),
                          !.vectors = SubSeq(@, 1, index)
                                        \o SubSeq(@, index + 2, Len(@))],
             result |-> Some(s.vectors[index + 1])]

\* remove with the swap but without re-indexing the vector that was moved
remove_NoReindex(s, id) ==
    IF id \notin DOMAIN s.id_to_index THEN [state |-> s, result |-> None]
    ELSE LET index == s.id_to_index[id]
             last_index == Len(s.vectors) - 1
             swapped == IF index < last_index
                        THEN Swap(s.vectors, index, last_index) ELSE s.vectors
         IN [state |-> [s EXCEPT !.id_to_index = MapRemove(@, id),
                                 !.vectors = SubSeq(swapped, 1, last_index)],
             result |-> Some(swapped[last_index + 1])]

remove(s, id) ==
    IF id \notin DOMAIN s.id_to_index THEN [state |-> s, result |-> None]
    ELSE LET index == s.id_to_index[id]
             map1 == MapRemove(s.id_to_index, id)
         IN IF s.vectors = <<>> THEN [state |-> s, result |-> Panic]
            ELSE LET last_index == Len(s.vectors) - 1
                     swapped == IF index < last_index
                                THEN Swap(s.vectors, index, last_index)
                                ELSE s.vectors
                     map2 == IF index < last_index
                             THEN MapInsert(map1, swapped[index + 1].id, index)
                             ELSE map1
                 IN [state |-> [s EXCEPT
                                  !.id_to_index = map2,
                                  !.vectors = SubSeq(swapped, 1, last_index)],
                     result |-> Some(swapped[last_index + 1])]

\* mem::size_of of String, usize and VectorCollection on a 64-bit target
SizeOfString == 24
SizeOfUsize == 8
SizeOfCollection == 88

memory_usage(s) ==
    LET vectors_memory == SumSeq([i \in DOMAIN s.vectors |-> VectorMemoryUsage(s.vectors[i])])
        hashmap_memory == Cardinality(DOMAIN s.id_to_index) * (SizeOfString + SizeOfUsize)
    IN vectors_memory + hashmap_memory + SizeOfCollection

\* the position a stable sort gives x among the sorted sequence out:
\* after every element that is not greater
RECURSIVE SortedInsert(_, _)
SortedInsert(out, x) ==
    IF out = <<>> THEN <<x>>
    ELSE IF x[2] < Head(out)[2] THEN <<x>> \o out
    ELSE <<Head(out)>> \o SortedInsert(Tail(out), x)

RECURSIVE SortFrom(_, _)
SortFrom(out, rest) ==
    IF rest = <<>> THEN out ELSE SortFrom(SortedInsert(out, Head(rest)), Tail(rest))

\* results.sort_by(|a, b| a.1.partial_cmp(&b.1)...): stable, ascending by
\* value.  No metric value of the model is NaN, so partial_cmp always orders.
SortByValue(results) == SortFrom(<<>>, results)

\* into_iter().take(k)
Take(seq, k) == SubSeq(seq, 1, IF k < Len(seq) THEN k ELSE Len(seq))

\* search that leaves out the vectors whose computation fails, as filter_map
\* over the results would
search_SkipFailed(s, query, k, metric) ==
    LET computed == [i \in DOMAIN s.vectors |-> compute(metric, query, s.vectors[i])]
        pairs == [i \in DOMAIN s.vectors |->
                    <<s.vectors[i].id, computed[i]>>]
        kept == SelectSeq(pairs, LAMBDA p : p[2].ok)
    IN Ok(Take(SortByValue([i \in DOMAIN kept |-> <<kept[i][1], kept[i][2].val>>]), k))

\* search that takes the first k results without sorting them
search_NoSort(s, query, k, metric) ==
    LET computed == [i \in DOMAIN s.vectors |-> compute(metric, query, s.vectors[i])]
        failed == {i \in DOMAIN computed : ~computed[i].ok}
    IN IF failed # {}
       THEN Err(computed[CHOOSE i \in failed : \A j \in failed : i <= j].err)
       ELSE Ok(Take([i \in DOMAIN s.vectors |->
                        <<s.vectors[i].id, computed[i].val>>], k))

search(s, query, k, metric) ==
    LET computed == [i \in DOMAIN s.vectors |-> compute(metric, query, s.vectors[i])]
        failed == {i \in DOMAIN computed : ~computed[i].ok}
    IN IF failed # {}
       THEN Err(computed[CHOOSE i \in failed : \A j \in failed : i <= j].err)
       ELSE Ok(Take(SortByValue([i \in DOMAIN s.vectors |->
                                    <<s.vectors[i].id, computed[i].val>>]), k))

RECURSIVE ChunksOf(_, _)
\* Chunks::next: split min(len, chunk_size) elements off the front until none is left
ChunksOf(v, chunk_size) ==
    IF v = <<>> THEN <<>>
    ELSE LET chunksz == IF Len(v) < chunk_size THEN Len(v) ELSE chunk_size
         IN <<SubSeq(v, 1, chunksz)>> \o ChunksOf(SubSeq(v, chunksz + 1, Len(v)), chunk_size)

\* chunks that drops a shorter last chunk, as slice::chunks_exact does
chunks_Exact(s, chunk_size) ==
    IF chunk_size = 0 THEN Panic
    ELSE Ok(SelectSeq(ChunksOf(s.vectors, chunk_size), LAMBDA c : Len(c) = chunk_size))

\* slice::chunks(chunk_size): panics when chunk_size is 0
chunks(s, chunk_size) ==
    IF chunk_size = 0 THEN Panic ELSE Ok(ChunksOf(s.vectors, chunk_size))

\* the calls through &self, of which search sorts the collection's own
\* vectors by their distance to the query
Call_SearchSortsInPlace(s, c) ==
    [state |->
        IF c.op = "search" /\ search(s, c.query, c.k, c.metric).ok
        THEN LET order == SortByValue([i \in DOMAIN s.vectors |->
                            <<i, compute(c.metric, c.query, s.vectors[i]).val>>])
             IN [s EXCEPT !.vectors = [i \in DOMAIN s.vectors |-> s.vectors[order[i][1]]]]
        ELSE s,
     result |->
        CASE c.op = "search" -> search(s, c.query, c.k, c.metric)
          [] c.op = "get" -> get(s, c.id)
          [] c.op = "contains" -> contains(s, c.id)
          [] c.op = "chunks" -> chunks(s, c.chunk_size)
          [] c.op = "memory_usage" -> memory_usage(s)
          [] c.op = "len" -> len(s)
          [] c.op = "is_empty" -> is_empty(s)]

\* the calls through &self (search, get, contains, chunks, memory_usage, len,
\* is_empty): each returns its result and, holding only a shared reference,
\* leaves the collection it was given
Call(s, c) ==
    [state |-> s,
     result |->
        CASE c.op = "search" -> search(s, c.query, c.k, c.metric)
          [] c.op = "get" -> get(s, c.id)
          [] c.op = "contains" -> contains(s, c.id)
          [] c.op = "chunks" -> chunks(s, c.chunk_size)
          [] c.op = "memory_usage" -> memory_usage(s)
          [] c.op = "len" -> len(s)
          [] c.op = "is_empty" -> is_empty(s)]

(***************************************************************************)
(* The state machine: one action per call on the collection.               *)
(***************************************************************************)
Cur == [vectors |-> vectors, id_to_index |-> id_to_index, dimensions |-> dimensions]

Store(s) ==
    /\ vectors' = s.vectors
    /\ id_to_index' = s.id_to_index
    /\ dimensions' = s.dimensions

\* get_simd_width(), which alignment.rs does not define: the widths a
\* platform can report
SimdWidths == 1..MaxWidth

\* the coordinate sequences callers construct Vectors from
DataSet == UNION {[1..d -> {F(x) : x \in Vals}] : d \in Dims}

\* the Vectors callers can construct on this platform
Pool == {VectorNew(id, data, simd_width).val : id \in Ids, data \in DataSet}

\* the Vectors batches are made of: every identifier in every dimension
BatchPool == {v \in Pool : \A i \in 1..v.dim : v.data[i] = F(1)}

Batches == UNION {[1..n -> BatchPool] : n \in 0..MaxBatch}

\* the slices the metrics are applied to, the empty slice included
MetricData ==
    UNION {[1..d -> {F(x) : x \in -MetricMaxVal..MetricMaxVal}] : d \in 0..MetricMaxDim}

\* the coordinate sequences Vector::new is called with, the empty one included
VecData == UNION {[1..d -> {F(x) : x \in VecVals}] : d \in 0..VecMaxDim}

\* the coordinates of the Vectors that are normalized: zero, the smallest
\* positive value of the grid (its square rounds to zero, as the square of
\* 1e-30 does in f32), and 3.0 and 4.0
NormVals == {0, 1, F(3), F(4)}

NormData == UNION {[1..d -> NormVals] : d \in 1..NormMaxDim}

\* the Vectors of both source files that a caller can construct and normalize
NormPool ==
    {VectorNew(id, data, simd_width).val : id \in Ids, data \in NormData}
        \cup {UnpaddedNew(id, data).val : id \in Ids, data \in NormData}

\* the Vectors the shared collection is filled with: dimension 2, (1, 0) and
\* (0, 1) under every identifier
ReadPool == {v \in Pool : v.dim = 2 /\ v.data[1] # v.data[2]}

ReadFills == UNION {[1..n -> ReadPool] : n \in 0..Cardinality(Ids)}

\* the calls the readers make
ReadCalls ==
    {[op |-> "get", id |-> id] : id \in Ids}
        \cup {[op |-> "contains", id |-> id] : id \in Ids}
        \cup {[op |-> "chunks", chunk_size |-> n] : n \in {1, 2}}
        \cup {[op |-> "memory_usage"], [op |-> "len"], [op |-> "is_empty"]}
        \cup {[op |-> "search", query |-> VectorNew("query", data, simd_width).val,
                k |-> 2, metric |-> metric] :
                  data \in {<<F(1), F(0)>>, <<F(1), F(1)>>},
                  metric \in {"Euclidean", "Cosine"}}

Idle == [op |-> "idle"]

\* no reader holds a reference to the collection
NoReader == [r \in Readers |-> Idle]

Init ==
    /\ vectors = New.vectors
    /\ id_to_index = New.id_to_index
    /\ dimensions = New.dimensions
    /\ simd_width \in {1, SIMD_ALIGNMENT \div SizeOfF32}
    /\ last = Idle
    /\ pre = New
    /\ vec = None
    /\ readers = NoReader

Insert ==
    /\ last = Idle
    /\ \E v \in Pool :
        LET r == insert(Cur, v)
        IN /\ Store(r.state)
           /\ last' = [op |-> "insert", vector |-> v, result |-> r.result]
           /\ pre' = Cur
           /\ UNCHANGED <<simd_width, vec, readers>>

BatchInsert ==
    /\ last = Idle
    /\ \E vs \in Batches :
        LET r == batch_insert(Cur, vs)
        IN /\ Store(r.state)
           /\ last' = [op |-> "batch_insert", vectors |-> vs, result |-> r.result]
           /\ pre' = Cur
           /\ UNCHANGED <<simd_width, vec, readers>>

Remove ==
    /\ last = Idle
    /\ \E id \in Ids :
        LET r == remove(Cur, id)
        IN /\ Store(r.state)
           /\ last' = [op |-> "remove", id |-> id, result |-> r.result]
           /\ pre' = Cur
           /\ UNCHANGED <<simd_width, vec, readers>>

Search ==
    /\ last = Idle
    /\ \E data \in DataSet, k \in 0..MaxK, metric \in Metrics :
        LET query == VectorNew("query", data, simd_width).val
        IN /\ last' = [op |-> "search", query |-> query, k |-> k, metric |-> metric,
                       result |-> search(Cur, query, k, metric)]
           /\ pre' = Cur
           /\ UNCHANGED <<vectors, id_to_index, dimensions, simd_width, vec, readers>>

Chunks ==
    /\ last = Idle
    /\ \E chunk_size \in 0..MaxChunk :
        /\ last' = [op |-> "chunks", chunk_size |-> chunk_size,
                    result |-> chunks(Cur, chunk_size)]
        /\ pre' = Cur
        /\ UNCHANGED <<vectors, id_to_index, dimensions, simd_width, vec, readers>>

\* the caller has taken the result: the record of the call is dropped
Return ==
    /\ last # Idle
    /\ last' = Idle
    /\ pre' = New
    /\ UNCHANGED <<vectors, id_to_index, dimensions, simd_width, vec, readers>>

\* DistanceMetric::calculate on two slices
Calculate ==
    /\ last = Idle
    /\ \E metric \in Metrics, a \in MetricData, b \in MetricData :
        last' = [op |-> "calculate", metric |-> metric, a |-> a, b |-> b,
                 result |-> calculate(metric, a, b)]
    /\ UNCHANGED <<vectors, id_to_index, dimensions, simd_width, pre, vec, readers>>

\* Vector::new on the platform's width
Construct ==
    /\ last = Idle
    /\ \E id \in Ids, data \in VecData :
        last' = [op |-> "new", id |-> id, data |-> data,
                 result |-> VectorNew(id, data, simd_width)]
    /\ UNCHANGED <<vectors, id_to_index, dimensions, simd_width, pre, vec, readers>>

\* Vector::normalize on the Vector of vector_aligned.rs
Normalize ==
    /\ last = Idle
    /\ vec.some
    /\ "padded_dim" \in DOMAIN vec.val
    /\ vec' = Some(normalize(vec.val))
    /\ last' = [op |-> "normalize", before |-> vec.val, result |-> Unit]
    /\ UNCHANGED <<vectors, id_to_index, dimensions, simd_width, pre, readers>>

\* Vector::normalize on the Vector of vector.rs
NormalizeUnpadded ==
    /\ last = Idle
    /\ vec.some
    /\ "padded_dim" \notin DOMAIN vec.val
    /\ vec' = Some(normalize_unpadded(vec.val))
    /\ last' = [op |-> "normalize", before |-> vec.val, result |-> Unit]
    /\ UNCHANGED <<vectors, id_to_index, dimensions, simd_width, pre, readers>>

\* a reader takes a shared reference and starts a call
BeginRead ==
    /\ last = Idle
    /\ \E r \in Readers, c \in ReadCalls :
        /\ readers[r] = Idle
        /\ readers' = [readers EXCEPT ![r] = [op |-> "reading", call |-> c, seen |-> Cur]]
    /\ UNCHANGED <<vectors, id_to_index, dimensions, simd_width, last, pre, vec>>

\* a reader's call runs on the collection as it is now and returns
FinishRead ==
    /\ last = Idle
    /\ \E r \in Readers :
        /\ readers[r] # Idle
        /\ LET res == Call(Cur, readers[r].call)
           IN /\ Store(res.state)
              /\ last' = [op |-> "read", reader |-> r, call |-> readers[r].call,
                          seen |-> readers[r].seen, result |-> res.result]
        /\ pre' = Cur
        /\ readers' = [readers EXCEPT ![r] = Idle]
    /\ UNCHANGED <<simd_width, vec>>

\* the collection under every call of its interface
Next == Insert \/ BatchInsert \/ Remove \/ Search \/ Chunks \/ Return

Spec == Init /\ [][Next]_vars

\* the metrics as pure functions of two slices
NextMetric == Calculate \/ Return

SpecMetric == Init /\ [][NextMetric]_vars

\* Vector construction on every platform width
InitVector ==
    /\ vectors = New.vectors
    /\ id_to_index = New.id_to_index
    /\ dimensions = New.dimensions
    /\ simd_width \in SimdWidths
    /\ last = Idle
    /\ pre = New
    /\ vec = None
    /\ readers = NoReader

NextVector == Construct \/ Return

SpecVector == InitVector /\ [][NextVector]_vars

\* a filled collection shared by readers, no writer holding it
InitReaders ==
    /\ simd_width \in {1, SIMD_ALIGNMENT \div SizeOfF32}
    /\ \E vs \in ReadFills :
        /\ vectors = batch_insert(New, vs).state.vectors
        /\ id_to_index = batch_insert(New, vs).state.id_to_index
        /\ dimensions = batch_insert(New, vs).state.dimensions
    /\ last = Idle
    /\ pre = New
    /\ vec = None
    /\ readers = NoReader

NextReaders == BeginRead \/ FinishRead \/ Return

SpecReaders == InitReaders /\ [][NextReaders]_vars

\* a constructed Vector under any number of normalize calls
InitNormalize ==
    /\ vectors = New.vectors
    /\ id_to_index = New.id_to_index
    /\ dimensions = New.dimensions
    /\ simd_width \in SimdWidths
    /\ last = Idle
    /\ pre = New
    /\ vec \in {Some(v) : v \in NormPool}
    /\ readers = NoReader

NextNormalize == Normalize \/ NormalizeUnpadded \/ Return

SpecNormalize == InitNormalize /\ [][NextNormalize]_vars

(***************************************************************************)
(* The claims.                                                             *)
(***************************************************************************)

\* C1: in every state reached by insert, batch_insert and remove calls the
\* identifier-to-slot map is a bijection onto the occupied slots: it has
\* exactly len() entries, every mapped slot is below len(), and the vector
\* in the slot mapped from an identifier carries that identifier.
C1_IndexBijection ==
    /\ Cardinality(DOMAIN id_to_index) = Len(vectors)
    /\ \A id \in DOMAIN id_to_index :
        /\ id_to_index[id] >= 0
        /\ id_to_index[id] < Len(vectors)
        /\ vectors[id_to_index[id] + 1].id = id

\* a remove that moved the last vector into a vacated slot has returned
C1_Witness ==
    /\ last.op = "remove"
    /\ Len(pre.vectors) = 3
    /\ last.result = Some(pre.vectors[1])
    /\ vectors[1] = pre.vectors[3]

\* C2 as stated: an insert whose identifier is already present fails with
\* the duplicate-identifier error and leaves the collection unchanged.
C2_DuplicateAlwaysDuplicateError ==
    (last.op = "insert" /\ contains(pre, last.vector.id)) =>
        /\ last.result = Err(DuplicateId(last.vector.id))
        /\ Cur = pre

\* C2 as amended: an insert whose identifier is already present fails and
\* leaves the collection unchanged (same len(), same vector returned by get
\* for that identifier, same dimension); the error is the
\* duplicate-identifier error when the vector's dimension equals the
\* established one, and InvalidDimension when it differs.
C2_DuplicateRejected ==
    (last.op = "insert" /\ contains(pre, last.vector.id)) =>
        /\ ~last.result.ok
        /\ last.result.err =
             IF last.vector.dim = pre.dimensions.val
             THEN DuplicateId(last.vector.id)
             ELSE InvalidDimension(pre.dimensions.val, last.vector.dim)
        /\ len(Cur) = len(pre)
        /\ get(Cur, last.vector.id) = get(pre, last.vector.id)
        /\ dimensions = pre.dimensions
        /\ vectors = pre.vectors
        /\ id_to_index = pre.id_to_index

\* a same-dimension vector with other coordinates was offered under a stored
\* identifier and refused as a duplicate
C2_Witness ==
    /\ last.op = "insert"
    /\ contains(pre, last.vector.id)
    /\ last.result = Err(DuplicateId(last.vector.id))
    /\ get(pre, last.vector.id).val # last.vector
    /\ len(pre) = 2

\* C3: an insert of a vector whose dimension differs from the established
\* dimension fails with InvalidDimension{expected: the established dimension,
\* got: the vector's dimension} and changes neither the backing sequence nor
\* the index map nor the dimension.
C3_DimensionMismatchRejected ==
    (last.op = "insert" /\ pre.dimensions.some
        /\ last.vector.dim # pre.dimensions.val) =>
        /\ last.result = Err(InvalidDimension(pre.dimensions.val, last.vector.dim))
        /\ vectors = pre.vectors
        /\ id_to_index = pre.id_to_index
        /\ dimensions = pre.dimensions

\* a vector of another dimension, under a fresh identifier and under a stored
\* one, was refused
C3_Witness ==
    /\ last.op = "insert"
    /\ pre.dimensions = Some(2)
    /\ last.vector.dim = 1
    /\ contains(pre, last.vector.id)
    /\ last.result = Err(InvalidDimension(2, 1))

\* C4: remove(id) of a present identifier, whatever slot it occupies,
\* decreases len() by exactly 1, makes contains(id) false, and leaves every
\* other stored identifier retrievable via get with the vector it had before.
C4_RemovePresent ==
    (last.op = "remove" /\ contains(pre, last.id)) =>
        /\ len(Cur) = len(pre) - 1
        /\ ~contains(Cur, last.id)
        /\ \A other \in DOMAIN pre.id_to_index \ {last.id} :
            /\ contains(Cur, other)
            /\ get(Cur, other) = get(pre, other)
            /\ get(Cur, other).some

\* the first of three slots was removed
C4_Witness ==
    /\ last.op = "remove"
    /\ contains(pre, last.id)
    /\ pre.id_to_index[last.id] = 0
    /\ len(pre) = 3

\* the (identifier, metric value) pair of the vector in slot i - 1
C5_Pair(i) ==
    <<pre.vectors[i].id, compute(last.metric, last.query, pre.vectors[i]).val>>

RECURSIVE C6_Concat(_)
C6_Concat(cs) == IF cs = <<>> THEN <<>> ELSE Head(cs) \o C6_Concat(Tail(cs))

\* C6: chunks(n) with n >= 1 over a collection of length L yields ceil(L/n)
\* chunks, each of length <= n and only the last possibly shorter than n,
\* whose lengths sum to L and whose concatenation is the backing sequence.
C6_ChunksPartition ==
    (last.op = "chunks" /\ last.chunk_size >= 1) =>
        /\ last.result.ok
        /\ LET cs == last.result.val
               n == last.chunk_size
               L == len(pre)
           IN /\ Len(cs) = (L + n - 1) \div n
              /\ \A c \in DOMAIN cs : Len(cs[c]) >= 1 /\ Len(cs[c]) <= n
              /\ \A c \in DOMAIN cs : c < Len(cs) => Len(cs[c]) = n
              /\ SumSeq([c \in DOMAIN cs |-> Len(cs[c])]) = L
              /\ C6_Concat(cs) = pre.vectors
        /\ Cur = pre

\* three vectors were cut into a chunk of two and a shorter last chunk
C6_Witness ==
    /\ last.op = "chunks"
    /\ last.chunk_size = 2
    /\ len(pre) = 3
    /\ last.result.ok
    /\ Len(last.result.val) = 2
    /\ Len(last.result.val[2]) = 1

\* the dimension a batch is held to: the established one, or the first
\* element's on a collection that has none
C7_Dim == IF pre.dimensions.some THEN pre.dimensions.val ELSE last.vectors[1].dim

\* element j of the batch is accepted after the elements before it
C7_Accepted(j) ==
    /\ last.vectors[j].dim = C7_Dim
    /\ ~contains(pre, last.vectors[j].id)
    /\ \A i \in 1..(j - 1) : last.vectors[i].id # last.vectors[j].id

\* the elements before the first one that is refused
C7_Prefix ==
    LET refused == {j \in DOMAIN last.vectors : ~C7_Accepted(j)}
    IN IF refused = {} THEN last.vectors
       ELSE SubSeq(last.vectors, 1, (CHOOSE j \in refused : \A i \in refused : j <= i) - 1)

RECURSIVE C7_InsertAll(_, _)
\* insert called on the elements of vs one by one, every result ignored
C7_InsertAll(s, vs) ==
    IF vs = <<>> THEN s ELSE C7_InsertAll(insert(s, Head(vs)).state, Tail(vs))

\* C7: batch_insert inserts the vectors in order and stops at the first
\* element whose insert fails: it returns that element's error, every element
\* before it is stored in order behind the vectors already there, neither it
\* nor any later element is stored, and the collection is the one that insert
\* called one by one on the elements before it leaves.
C7_BatchStopsAtFirstFailure ==
    (last.op = "batch_insert") =>
        LET vs == last.vectors
            f == Len(C7_Prefix) + 1
        IN /\ vectors = pre.vectors \o C7_Prefix
           /\ DOMAIN id_to_index =
                DOMAIN pre.id_to_index \cup {C7_Prefix[j].id : j \in DOMAIN C7_Prefix}
           /\ \A j \in DOMAIN C7_Prefix : get(Cur, C7_Prefix[j].id) = Some(C7_Prefix[j])
           /\ \A id \in DOMAIN pre.id_to_index : get(Cur, id) = get(pre, id)
           /\ Cur = C7_InsertAll(pre, C7_Prefix)
           /\ IF f > Len(vs) THEN last.result = Ok(Unit)
              ELSE /\ ~last.result.ok
                   /\ last.result = insert(C7_InsertAll(pre, C7_Prefix), vs[f]).result
                   /\ last.result.err =
                        IF vs[f].dim # C7_Dim
                        THEN InvalidDimension(C7_Dim, vs[f].dim)
                        ELSE DuplicateId(vs[f].id)

\* a batch of two on a non-empty collection stored its first element and
\* failed on its second
C7_Witness ==
    /\ last.op = "batch_insert"
    /\ Len(last.vectors) = 2
    /\ ~last.result.ok
    /\ len(pre) = 1
    /\ len(Cur) = 2
    /\ vectors[2] = last.vectors[1]

\* C8: the DotProduct metric returns the raw dot product sum(a_i * b_i) of
\* two slices of equal length, without negation.
C8_DotProductRaw ==
    (last.op = "calculate" /\ last.metric = "DotProduct"
        /\ Len(last.a) = Len(last.b) /\ last.a # <<>>) =>
        last.result = Ok(SumSeq([i \in DOMAIN last.a |-> FMul(last.a[i], last.b[i])]))

\* C9: for every metric, slices a and b of different lengths give the
\* dimension error with expected = a's length and actual = b's length, and no
\* value, whatever the metric and whether or not a slice is empty.
C9_MismatchIsDimensionError ==
    (last.op = "calculate" /\ Len(last.a) # Len(last.b)) =>
        /\ ~last.result.ok
        /\ last.result.err = DimensionMismatch(Len(last.a), Len(last.b))

\* the Cosine metric was asked for a slice of two against a slice of one
C9_Witness ==
    /\ last.op = "calculate"
    /\ last.metric = "Cosine"
    /\ Len(last.a) = 2
    /\ Len(last.b) = 1
    /\ last.result = Err(DimensionMismatch(2, 1))

\* C10: for every dim > 0 and every SIMD width w >= 1, the Vector built from
\* dim values has padded_dim = dim rounded up to a multiple of w
\* (padded_dim % w = 0, padded_dim >= dim, padded_dim - dim < w), a buffer of
\* padded_dim slots whose first dim slots are the values in order and whose
\* other slots are 0; on width 4 padded_dim is pad_to_simd_width(dim).
C10_PaddedConstruction ==
    (last.op = "new" /\ Len(last.data) > 0) =>
        /\ last.result.ok
        /\ LET v == last.result.val
               w == simd_width
           IN /\ v.id = last.id
              /\ v.dim = Len(last.data)
              /\ v.padded_dim % w = 0
              /\ v.padded_dim >= v.dim
              /\ v.padded_dim - v.dim < w
              /\ Len(RawData(v)) = v.padded_dim
              /\ Data(v) = last.data
              /\ \A i \in 1..v.dim : RawData(v)[i] = last.data[i]
              /\ \A i \in (v.dim + 1)..v.padded_dim : RawData(v)[i] = 0
              /\ w = SIMD_ALIGNMENT \div SizeOfF32 => v.padded_dim = pad_to_simd_width(v.dim)
              /\ ~v.is_normalized

\* five values were padded to eight slots on a width of four
C10_Witness ==
    /\ last.op = "new"
    /\ simd_width = 4
    /\ Len(last.data) = 5
    /\ last.result.ok
    /\ last.result.val.padded_dim = 8
    /\ last.result.val.data[5] = F(2)
    /\ last.result.val.data[6] = 0

\* C11: the padding region [dim, padded_dim) of a Vector is zero in every
\* state from its construction on, whatever number of normalize calls it has
\* gone through: the buffer keeps its padded_dim slots, and a normalize call
\* leaves the identifier, dim, padded_dim and every slot from dim on as they
\* were.
C11_PaddingStaysZero ==
    (vec.some /\ "padded_dim" \in DOMAIN vec.val) =>
        LET v == vec.val
        IN /\ Len(RawData(v)) = v.padded_dim
           /\ \A i \in (v.dim + 1)..v.padded_dim :
                i \in DOMAIN RawData(v) /\ RawData(v)[i] = 0
           /\ last.op = "normalize" =>
                /\ v.id = last.before.id
                /\ v.dim = last.before.dim
                /\ v.padded_dim = last.before.padded_dim
                /\ \A i \in (v.dim + 1)..v.padded_dim :
                     i \in DOMAIN RawData(v) /\ RawData(v)[i] = last.before.data[i]

\* a second normalize call has returned on a Vector of two coordinates and
\* two padding slots that the first call scaled to (0.6, 0.8)
C11_Witness ==
    /\ last.op = "normalize"
    /\ vec.some
    /\ "padded_dim" \in DOMAIN vec.val
    /\ last.before.is_normalized
    /\ vec.val.dim = 2
    /\ vec.val.padded_dim = 4
    /\ vec.val.data = <<600, 800, 0, 0>>

\* normalize of the source file the Vector v comes from
C12_Normalize(v) ==
    IF "padded_dim" \in DOMAIN v THEN normalize(v) ELSE normalize_unpadded(v)

\* C12: normalize is idempotent, a second call leaving the logical data the
\* first call produced; after normalize the logical magnitude is 1 (within
\* the tolerance) unless the vector was all-zero, and then the logical data
\* is unchanged.
C12_NormalizeIdempotent ==
    (last.op = "normalize" /\ vec.some) =>
        /\ LogicalData(C12_Normalize(vec.val)) = LogicalData(vec.val)
        /\ last.before.is_normalized =>
             LogicalData(vec.val) = LogicalData(last.before)
        /\ IF \A i \in 1..last.before.dim : last.before.data[i] = 0
           THEN LogicalData(vec.val) = LogicalData(last.before)
           ELSE /\ Norm(LogicalData(vec.val)) >= F(1) - Tolerance
                /\ Norm(LogicalData(vec.val)) <= F(1) + Tolerance

\* C13: the Cosine metric returns exactly 1 whenever either slice has norm
\* zero (every coordinate zero), two all-zero slices included, and returns 1
\* for two non-zero slices whose products sum to zero.
C13_CosineZeroNorm ==
    (last.op = "calculate" /\ last.metric = "Cosine"
        /\ Len(last.a) = Len(last.b) /\ last.a # <<>>) =>
        LET zero(x) == \A i \in DOMAIN x : x[i] = 0
            orthogonal ==
                SumSeq([i \in DOMAIN last.a |-> last.a[i] * last.b[i]]) = 0
        IN /\ last.result.ok
           /\ (zero(last.a) \/ zero(last.b)) => last.result = Ok(F(1))
           /\ (Norm(last.a) = 0 \/ Norm(last.b) = 0) => last.result = Ok(F(1))
           /\ orthogonal => last.result = Ok(F(1))

\* the Cosine metric of two all-zero slices of two coordinates was 1
C13_Witness ==
    /\ last.op = "calculate"
    /\ last.metric = "Cosine"
    /\ last.a = <<0, 0>>
    /\ last.b = <<0, 0>>
    /\ last.result = Ok(F(1))

\* C14: the fixed dimension is sticky: once it is set no call changes or
\* clears it, and an insert into a collection that remove has emptied, of a
\* vector whose dimension differs from the one set, fails with
\* InvalidDimension and stores nothing.
C14_DimensionSticky ==
    [][/\ dimensions.some => dimensions' = dimensions
       /\ (last'.op = "insert" /\ vectors = <<>> /\ dimensions.some
              /\ last'.vector.dim # dimensions.val) =>
            /\ last'.result =
                 Err(InvalidDimension(dimensions.val, last'.vector.dim))
            /\ vectors' = <<>>
            /\ id_to_index' = id_to_index]_vars

\* remove has emptied a collection of dimension 2, and an insert of a vector
\* of dimension 1 into it has failed with InvalidDimension
C14_Witness ==
    /\ last.op = "insert"
    /\ pre.vectors = <<>>
    /\ pre.dimensions = Some(2)
    /\ last.vector.dim = 1
    /\ last.result = Err(InvalidDimension(2, 1))
    /\ dimensions = Some(2)

\* C15: in every state every stored vector has the fixed dimension; the
\* dimension is unset only while no insert has succeeded (a successful
\* insert leaves it set, and once set it stays); and the step that sets it is
\* a successful insert, or a batch_insert whose first element is stored,
\* that sets it to the dimension of that first stored vector.
C15_StoredDimensionsFixed ==
    /\ [](\A i \in DOMAIN vectors :
            dimensions.some /\ vectors[i].dim = dimensions.val)
    /\ [](~dimensions.some => (vectors = <<>> /\ id_to_index = <<>>))
    /\ [][/\ dimensions.some => dimensions' = dimensions
          /\ (last'.op = "insert" /\ last'.result.ok) => dimensions'.some
          /\ (last'.op = "batch_insert" /\ vectors' # vectors) => dimensions'.some
          /\ (~dimensions.some /\ dimensions'.some) =>
               \/ /\ last'.op = "insert"
                  /\ last'.result.ok
                  /\ vectors' = <<last'.vector>>
                  /\ dimensions' = Some(last'.vector.dim)
               \/ /\ last'.op = "batch_insert"
                  /\ last'.vectors # <<>>
                  /\ vectors' # <<>>
                  /\ vectors'[1] = last'.vectors[1]
                  /\ dimensions' = Some(last'.vectors[1].dim)]_vars

\* two vectors of dimension 2 are stored, and an insert of a vector of
\* dimension 1 under a fresh identifier has just been refused
C15_Witness ==
    /\ last.op = "insert"
    /\ Len(vectors) = 2
    /\ dimensions = Some(2)
    /\ \A i \in DOMAIN vectors : vectors[i].dim = 2
    /\ last.vector.dim = 1
    /\ ~contains(Cur, last.vector.id)
    /\ ~last.result.ok

\* C16: a search whose query has another dimension than a stored vector
\* fails with the dimension error the metric computation gives for the query
\* and that vector, carries no result list, and leaves the collection as it
\* was; and a search that returns Ok returns min(k, len()) entries, never
\* fewer because computations failed.
C16_SearchMismatchFails ==
    (last.op = "search") =>
        /\ (\E i \in DOMAIN pre.vectors : pre.vectors[i].dim # last.query.dim) =>
             /\ ~last.result.ok
             /\ DOMAIN last.result = {"ok", "err"}
             /\ last.result.err.kind = "InvalidDimension"
             /\ last.result.err =
                  InvalidDimension(last.query.dim, pre.vectors[1].dim)
             /\ last.result.err =
                  compute(last.metric, last.query, pre.vectors[1]).err
        /\ last.result.ok =>
             /\ \A i \in DOMAIN pre.vectors : pre.vectors[i].dim = last.query.dim
             /\ Len(last.result.val) =
                  IF last.k < len(pre) THEN last.k ELSE len(pre)
        /\ Cur = pre

\* a query of dimension 1 was run against three vectors of dimension 2 and
\* the search failed
C16_Witness ==
    /\ last.op = "search"
    /\ len(pre) = 3
    /\ last.query.dim = 1
    /\ pre.dimensions = Some(2)
    /\ last.k = 2
    /\ last.result = Err(InvalidDimension(1, 2))

\* C17: remove(id) of an identifier stored in slot i returns the vector that
\* was in slot i, which carries the identifier asked for, and never the
\* vector that was moved; when i is not the last slot, the vector that was
\* in the last slot is in slot i afterwards and the index map sends its
\* identifier to i; every slot other than i and the dropped last one holds
\* the vector it held, under the same index.
C17_RemoveSwapsLast ==
    (last.op = "remove" /\ contains(pre, last.id)) =>
        LET i == pre.id_to_index[last.id]
            L == len(pre)
        IN /\ last.result.some
           /\ last.result.val.id = last.id
           /\ last.result.val = pre.vectors[i + 1]
           /\ Len(vectors) = L - 1
           /\ i < L - 1 =>
                /\ vectors[i + 1] = pre.vectors[L]
                /\ id_to_index[pre.vectors[L].id] = i
                /\ last.result.val # pre.vectors[L]
           /\ \A j \in 1..(L - 1) :
                j # i + 1 =>
                    /\ vectors[j] = pre.vectors[j]
                    /\ id_to_index[vectors[j].id] = j - 1
                    /\ id_to_index[vectors[j].id] = pre.id_to_index[vectors[j].id]

\* the middle one of three vectors was removed and the third took its slot
C17_Witness ==
    /\ last.op = "remove"
    /\ len(pre) = 3
    /\ contains(pre, last.id)
    /\ pre.id_to_index[last.id] = 1
    /\ last.result = Some(pre.vectors[2])
    /\ vectors = <<pre.vectors[1], pre.vectors[3]>>
    /\ id_to_index[pre.vectors[3].id] = 1

\* C18: remove(id) of an identifier that is not in the collection returns
\* nothing and leaves the backing sequence, the index map and the fixed
\* dimension as they were, on an empty collection as on any other.
C18_RemoveAbsent ==
    (last.op = "remove" /\ ~contains(pre, last.id)) =>
        /\ last.result = None
        /\ vectors = pre.vectors
        /\ id_to_index = pre.id_to_index
        /\ dimensions = pre.dimensions
        /\ len(Cur) = len(pre)

\* remove was called on a collection that earlier removes had emptied
C18_Witness ==
    /\ last.op = "remove"
    /\ pre.vectors = <<>>
    /\ pre.id_to_index = <<>>
    /\ pre.dimensions = Some(1)
    /\ last.result = None
    /\ Cur = pre

C20_NoPanic ==
    (last # Idle) => last.result # Panic

\* C21: normalize called on an all-zero vector leaves is_normalized false,
\* so that a later call tries again; the flag goes from false to true only
\* in a call that scaled the logical data by a strictly positive magnitude.
C21_ZeroVectorFlagStaysFalse ==
    (last.op = "normalize" /\ vec.some /\ ~last.before.is_normalized) =>
        LET magnitude == Norm(LogicalData(last.before))
        IN /\ (\A i \in 1..last.before.dim : last.before.data[i] = 0) =>
                ~vec.val.is_normalized
           /\ vec.val.is_normalized =>
                /\ magnitude > 0
                /\ \A i \in 1..vec.val.dim :
                     vec.val.data[i] = FDiv(last.before.data[i], magnitude)

\* C22: insert tests the dimension before the identifier: a vector that has
\* both another dimension than the established one and an identifier already
\* stored is refused with InvalidDimension, not with the
\* duplicate-identifier error; the insert that establishes the dimension
\* never fails on the identifier, so it succeeds; and an insert that fails
\* leaves the dimension, as the rest of the collection, as it was.
C22_DimensionBeforeIdentifier ==
    (last.op = "insert") =>
        /\ (pre.dimensions.some /\ last.vector.dim # pre.dimensions.val
              /\ contains(pre, last.vector.id)) =>
             /\ ~last.result.ok
             /\ last.result.err.kind = "InvalidDimension"
             /\ last.result.err # DuplicateId(last.vector.id)
             /\ last.result.err =
                  InvalidDimension(pre.dimensions.val, last.vector.dim)
        /\ ~pre.dimensions.some =>
             /\ ~contains(pre, last.vector.id)
             /\ last.result = Ok(Unit)
             /\ dimensions = Some(last.vector.dim)
        /\ ~last.result.ok =>
             /\ dimensions = pre.dimensions
             /\ vectors = pre.vectors
             /\ id_to_index = pre.id_to_index
        /\ dimensions # pre.dimensions => last.result.ok

\* a vector of dimension 2 was offered to three vectors of dimension 1 under
\* the identifier of one of them, and refused for its dimension
C22_Witness ==
    /\ last.op = "insert"
    /\ len(pre) = 3
    /\ pre.dimensions = Some(1)
    /\ last.vector.dim = 2
    /\ contains(pre, last.vector.id)
    /\ get(pre, last.vector.id).val.dim = 1
    /\ last.result = Err(InvalidDimension(1, 2))
    /\ dimensions = Some(1)

====
